---- MODULE Spec2Model ----
(***************************************************************************)
(* WebAR floor placement: the placement / model-lifecycle state machine of *)
(* WebARApp (src/src/main.js), the hit-test provider ARSession             *)
(* (src/unnamed/part_003), the gallery gate (src/unnamed/part_005) and the *)
(* gesture handler's target (src/unnamed/part_004).                        *)
(*                                                                         *)
(* Lengths are in millimetres, scales in thousandths, times in             *)
(* milliseconds.  An entity is identified by the number of the load that   *)
(* created it.  Every asynchronous completion (fetch settled, glTF parsed  *)
(* or failed) is a step of its own, interleaved with the user's actions.   *)
(***************************************************************************)
EXTENDS Integers, FiniteSets, Sequences, TLC

\* ---------------------------------------------------------------- bounds
MaxLoads == 2          \* loads (fetches) started in one run
HitLoads == 1          \* loads started in a run of the hit-test specification
MaxTime == 600         \* the clock stops advancing here
TickMs == 300          \* granularity of the clock
HitTickMs == 100       \* granularity of the clock of the hit-test specification
GestureLoads == 1      \* loads started in a run of the gesture specification
MaxTurn == 90          \* the rotation gestures stop at this many degrees either way
TwistStep == 45        \* two-finger angles are drawn every TwistStep degrees
MaxTouches == 4        \* touch events delivered to the gesture handler in one run
MaxStarts == 2         \* calls of start() that get past its guard in one run
SessionLoads == 1      \* gallery loads started in a run of the session specification

\* ------------------------------------------------------ program constants
SuppressMs == 300              \* suppressPlacement(300)
MaxReasonableOffset == 5000    \* maxReasonableOffset = 5.0 m
TargetSizeMM == 500            \* targetSizeMeters: 0.5
DefaultScale == 1000           \* defaultScale: '1 1 1'
MinFactor == 1000              \* gestures.scale.minFactor: 1
MaxFactor == 10000             \* gestures.scale.maxFactor: 10.0
ScaleSpeed == 1000             \* gestures.scale.speed: 1.0
RotationSpeed == 500           \* gestures.rotation.speed: 0.5
PinchRotateSpeed == 1000       \* gestures.pinchRotate.speed: 1.0

Models == {"house0", "house1"}
FirstModel == "house0"         \* CONFIG.models[0], loaded by autoLoadFirstModel
NoModel == "null"
NoEntity == 0
Null == [null |-> TRUE]
NoAngle == -1000               \* lastAngle = null
\* No drop to one finger is being followed: no anchor, no twist awaited
NoDrop == [anchor |-> -1, twist |-> -2000]
NoError == "none"              \* lastError = null
NoSession == 0                 \* this.session = null
StartIds == 1..MaxStarts       \* the calls of start(), in the order they are made
SessionIds == 1..MaxStarts     \* the XRSessions, in the order the platform creates them
DeepLoads == MaxLoads + 1      \* loads started in a run of the deep specification
Loads == 1..DeepLoads

Origin == [x |-> 0, y |-> 0, z |-> 0]
SurfaceHit == [x |-> 1000, y |-> 0, z |-> -2000]
HitPositions == {SurfaceHit, [x |-> -500, y |-> 50, z |-> -1500]}

\* Raw bounds of the parsed asset at scale 1 (thousandths of a native unit):
\* the largest dimension and the lowest point.
Geometry(m) ==
  IF m = "house0" THEN [largest |-> 2000, minY |-> -1200]
                  ELSE [largest |-> 1000, minY |-> -200]

VARIABLES
  \* WebARApp
  currentModel, activeModelId, modelIsPlaced, isModelLoading, isRepositioning,
  loadingCancelled, lastPlacedHitPosition, pendingSwitchInPlace,
  previousModelState, modelEntityCache,
  \* the scene: the entities created so far, and the loads in flight
  ents, loads,
  \* ARSession
  session, hitTestSource, xrLoop, sessionRequests, startError,
  sessionId, referenceSpace, viewerSpace, listeners, xrPresenting, xrSessions,
  starts, hidden,
  reticleEnabled, placementEnabled,
  placementSuppressedUntil, lastHitPosition, markerVisible, markerPosition, now,
  \* GestureHandler
  gestureModel, gestureBaseScale, isRotating, isScaling, lastTouchX,
  lastDistance, lastAngle, touches, sinceDrop,
  \* Gallery, UIController
  galleryEnabled, controlsEnabled

appVars == <<currentModel, activeModelId, modelIsPlaced, isModelLoading,
             isRepositioning, loadingCancelled, lastPlacedHitPosition,
             pendingSwitchInPlace, previousModelState, modelEntityCache>>
sceneVars == <<ents, loads>>
\* session says whether this.session is set and sessionId which XRSession it
\* is; listeners are the sessions that carry the select and end listeners;
\* xrPresenting is the session handed to renderer.xr.setSession; xrSessions is
\* the platform's side (none, active, ended); starts holds the calls of
\* start() and where each of them stands; hidden is document.hidden
sessionVars == <<session, hitTestSource, xrLoop, sessionRequests, startError,
                 sessionId, referenceSpace, viewerSpace, listeners, xrPresenting,
                 xrSessions, starts, hidden>>
placeVars == <<reticleEnabled, placementEnabled, placementSuppressedUntil>>
hitVars == <<lastHitPosition, markerVisible, markerPosition>>
\* touches counts the touch events delivered to an attached handler
touchVars == <<lastTouchX, lastDistance, lastAngle>>

\* sinceDrop keeps, from the moment a gesture dropped to one finger, the
\* position of the remaining finger until the next one-finger move and the
\* angle of the next two-finger touchstart until the next twist update
gestureVars == <<gestureModel, gestureBaseScale, isRotating, isScaling, touchVars,
                 touches, sinceDrop>>
uiVars == <<galleryEnabled, controlsEnabled>>
vars == <<appVars, sceneVars, sessionVars, placeVars, hitVars, now, gestureVars,
          uiVars>>

\* ------------------------------------------------------------- helpers
Abs(n) == IF n < 0 THEN -n ELSE n
Sign(n) == IF n < 0 THEN -1 ELSE IF n > 0 THEN 1 ELSE 0
Min(a, b) == IF a < b THEN a ELSE b

NoEnt == [model |-> NoModel, inDOM |-> FALSE, visible |-> FALSE, position |-> Origin,
          scale |-> DefaultScale, rotation |-> 0, hasMesh |-> FALSE,
          baseScale |-> 0, floorOffset |-> 0, hasData |-> FALSE]
\* A load: its phase (none, fetch, parse, done), the model it loads, and two
\* history fields: whether cancelModelLoading was called for it, and the
\* active model as it was when the load was started (Null when there was none)
\* A call of start(): the await it stands at (request, configure, ending,
\* setSession) or how it ended (done, failed), the candidate it is
\* requesting, whether the platform refuses that request, lastError, the
\* session it was granted, and the session it has handed to the renderer or
\* is ending
NoStart == [pc |-> "none", candidate |-> 0, refused |-> FALSE, lastError |-> NoError,
            granted |-> NoSession, sess |-> NoSession]
Returned == [NoStart EXCEPT !.pc = "done"]
Rejected == [NoStart EXCEPT !.pc = "failed"]
NoLoad == [phase |-> "none", model |-> NoModel, cancelled |-> FALSE, before |-> Null,
           asCached |-> Null]
Settled == [phase |-> "done", model |-> NoModel, cancelled |-> FALSE, before |-> Null,
            asCached |-> Null]

\* A placement that ignores the stored floor offset
floorOffsetNone(es, e) == 0

\* parseFloat(entity.dataset.floorOffset) || 0
floorOffsetOf(es, e) == IF es[e].hasData THEN es[e].floorOffset ELSE 0

\* position = (hit.x, hit.y + floorOffset, hit.z)
placedPosition(hit, floorOffset) ==
  [x |-> hit.x, y |-> hit.y + floorOffset, z |-> hit.z]

\* ------------------------------------------------------------- ARSession
\* A suppressPlacement that leaves the deadline where it was
suppressPlacementSkipped(durationMs) == UNCHANGED placementSuppressedUntil

\* suppressPlacement(durationMs): the deadline is absolute
suppressPlacement(durationMs) == placementSuppressedUntil' = now + durationMs

\* setReticleEnabled(enabled): disabling also hides the marker
reticleMarker(enabled, visible) == IF enabled THEN visible ELSE FALSE

\* Turning placement on without turning the reticle on
enablePlacementOnly ==
  /\ suppressPlacement(SuppressMs)
  /\ placementEnabled' = TRUE
  /\ UNCHANGED <<reticleEnabled, markerVisible>>

\* The three calls that turn placement on: suppressPlacement(300),
\* setReticleEnabled(true), setPlacementEnabled(true)
enablePlacement ==
  /\ suppressPlacement(SuppressMs)
  /\ reticleEnabled' = TRUE
  /\ placementEnabled' = TRUE
  /\ markerVisible' = reticleMarker(TRUE, markerVisible)

\* setReticleEnabled(false); setPlacementEnabled(false)
disablePlacement ==
  /\ reticleEnabled' = FALSE
  /\ placementEnabled' = FALSE
  /\ markerVisible' = reticleMarker(FALSE, markerVisible)
  /\ UNCHANGED placementSuppressedUntil

\* ------------------------------------------------------------- WebARApp
\* savePreviousModelState(): the snapshot taken before a switch
savePreviousModelState ==
  IF currentModel # NoEntity /\ activeModelId # NoModel
  THEN [modelId |-> activeModelId, wasPlaced |-> modelIsPlaced,
        position |-> ents[currentModel].position,
        scale |-> ents[currentModel].scale,
        rotation |-> ents[currentModel].rotation]
  ELSE Null

\* hideCurrentModel(): the entity part (gestures are detached and
\* modelIsPlaced is cleared by the caller under the same condition)
hideCurrentModel(es) ==
  IF currentModel # NoEntity THEN [es EXCEPT ![currentModel].visible = FALSE] ELSE es

placedAfterHide == IF currentModel # NoEntity THEN FALSE ELSE modelIsPlaced
gestureAfterHide == IF currentModel # NoEntity THEN NoEntity ELSE gestureModel

\* GestureHandler.detach() clears isRotating and isScaling and leaves the last
\* touch data; detached says whether detach() runs (by hideCurrentModel with
\* a current model, by attachToModel with a model still attached)
touchAfterDetach(detached) ==
  /\ isRotating' = (IF detached THEN FALSE ELSE isRotating)
  /\ isScaling' = (IF detached THEN FALSE ELSE isScaling)
  /\ UNCHANGED <<touchVars, touches, sinceDrop>>

\* activateCachedModel(): scale back to the stored base scale, rotation to
\* zero, hidden until placed
activateCachedModel(es, e) ==
  [es EXCEPT ![e].scale = IF es[e].hasData /\ es[e].baseScale > 0
                          THEN es[e].baseScale ELSE es[e].scale,
             ![e].rotation = 0,
             ![e].visible = FALSE]

\* const shouldSwitchInPlace = modelIsPlaced && lastPlacedHitPosition && !isRepositioning
shouldSwitchInPlace ==
  modelIsPlaced /\ lastPlacedHitPosition # Null /\ ~isRepositioning

Init ==
  /\ currentModel = NoEntity
  /\ activeModelId = NoModel
  /\ modelIsPlaced = FALSE
  /\ isModelLoading = FALSE
  /\ isRepositioning = FALSE
  /\ loadingCancelled = FALSE
  /\ lastPlacedHitPosition = Null
  /\ pendingSwitchInPlace = Null
  /\ previousModelState = Null
  /\ modelEntityCache = [m \in Models |-> Null]
  /\ ents = [e \in Loads |-> NoEnt]
  /\ loads = [l \in Loads |-> NoLoad]
  /\ session = "none"
  /\ hitTestSource = FALSE
  /\ xrLoop = FALSE
  /\ sessionRequests = <<>>
  /\ startError = NoError
  /\ sessionId = NoSession
  /\ referenceSpace = FALSE
  /\ viewerSpace = FALSE
  /\ listeners = {}
  /\ xrPresenting = NoSession
  /\ xrSessions = [k \in SessionIds |-> "none"]
  /\ starts = [s \in StartIds |-> NoStart]
  /\ hidden = FALSE
  /\ reticleEnabled = TRUE
  /\ placementEnabled = TRUE
  /\ placementSuppressedUntil = 0
  /\ lastHitPosition = Null
  /\ markerVisible \in BOOLEAN
  /\ markerPosition = Origin
  /\ now = 0
  /\ gestureModel = NoEntity
  /\ gestureBaseScale = DefaultScale
  /\ isRotating = FALSE
  /\ isScaling = FALSE
  /\ lastTouchX = 0
  /\ lastDistance = 0
  /\ lastAngle = NoAngle
  /\ sinceDrop = NoDrop
  /\ touches = 0
  /\ galleryEnabled = TRUE
  /\ controlsEnabled = TRUE


\* ----------------------------------------------------- gallery selection
FreeLoads == {l \in Loads : loads[l].phase = "none"}
NextLoad == CHOOSE l \in FreeLoads : \A k \in FreeLoads : l <= k

\* onModelSelect, the branch for a cache entry that is parsed and ready:
\* swap visibility, then switch in place or wait for a tap
selectCached(m) ==
  LET e == modelEntityCache[m].entity
      switch == shouldSwitchInPlace
      es1 == activateCachedModel(hideCurrentModel(ents), e)
      pos == placedPosition(lastPlacedHitPosition, floorOffsetOf(ents, e))
  IN /\ previousModelState' = savePreviousModelState
     /\ currentModel' = e
     /\ activeModelId' = m
     /\ IF switch
        THEN /\ ents' = [es1 EXCEPT ![e].position = pos, ![e].visible = TRUE]
             /\ modelIsPlaced' = TRUE
             /\ disablePlacement
             /\ gestureModel' = e
             /\ gestureBaseScale' = es1[e].scale
             /\ touchAfterDetach(currentModel # NoEntity \/ gestureModel # NoEntity)
        ELSE /\ ents' = es1
             /\ modelIsPlaced' = FALSE
             /\ enablePlacement
             /\ gestureModel' = gestureAfterHide
             /\ touchAfterDetach(currentModel # NoEntity)
             /\ UNCHANGED gestureBaseScale
     /\ UNCHANGED <<isModelLoading, isRepositioning, loadingCancelled,
                    lastPlacedHitPosition, pendingSwitchInPlace, modelEntityCache,
                    loads, uiVars>>

\* The active model at the moment of a selection: which model, whether it is
\* placed (shown in the scene with modelIsPlaced set), whether a reposition
\* is under way, and its transform
activeBefore ==
  IF currentModel = NoEntity THEN Null
  ELSE [model |-> ents[currentModel].model,
        placed |-> (modelIsPlaced /\ ents[currentModel].inDOM
                    /\ ents[currentModel].visible),
        repositioning |-> isRepositioning,
        position |-> ents[currentModel].position,
        scale |-> ents[currentModel].scale,
        rotation |-> ents[currentModel].rotation]

\* What the cached branch of onModelSelect would decide at the moment of a
\* selection: switch in place or wait for a tap, on which hit position, with
\* which gesture target left by hideCurrentModel, in which reposition mode
cachedOutcome ==
  [switch |-> shouldSwitchInPlace,
   hit |-> lastPlacedHitPosition,
   gesture |-> gestureAfterHide,
   repositioning |-> isRepositioning]

\* onModelSelect, the branch for a model that has to be fetched and parsed:
\* snapshot, hide, record the switch-in-place intent, lock the UI, start the
\* fetch (loadAndCacheModel up to its await)
selectUncached(m) ==
  /\ FreeLoads # {}
  /\ previousModelState' = savePreviousModelState
  /\ ents' = hideCurrentModel(ents)
  /\ modelIsPlaced' = placedAfterHide
  /\ gestureModel' = gestureAfterHide
  /\ touchAfterDetach(currentModel # NoEntity)
  /\ pendingSwitchInPlace' =
       IF shouldSwitchInPlace
       THEN [hitPosition |-> lastPlacedHitPosition, modelId |-> m]
       ELSE Null
  /\ loadingCancelled' = FALSE
  /\ isModelLoading' = TRUE
  /\ controlsEnabled' = FALSE
  /\ galleryEnabled' = FALSE
  /\ placementEnabled' = FALSE
  /\ loads' = [loads EXCEPT ![NextLoad] =
                 [phase |-> "fetch", model |-> m, cancelled |-> FALSE, before |-> activeBefore,
                  asCached |-> cachedOutcome]]
  /\ UNCHANGED <<currentModel, activeModelId, isRepositioning, lastPlacedHitPosition,
                 modelEntityCache, reticleEnabled, placementSuppressedUntil,
                 markerVisible, gestureBaseScale>>

\* A lookup that never finds a ready entry
isReadyNever(m) == FALSE

\* cachedModel && cachedModel.isReady
isReady(m) == modelEntityCache[m] # Null /\ modelEntityCache[m].isReady

\* onModelSelect(modelConfig)
onModelSelect(m) ==
  IF isModelLoading
  THEN /\ UNCHANGED <<appVars, sceneVars, placeVars, markerVisible, gestureVars, uiVars>>
  ELSE IF isReady(m)
       THEN selectCached(m)
       ELSE selectUncached(m)

\* A gallery and a handler that do not look at the loading lock
selectModelUnlocked(m) ==
  /\ session = "live"
  /\ IF isReady(m) THEN selectCached(m) ELSE selectUncached(m)
  /\ UNCHANGED <<sessionVars, lastHitPosition, markerPosition, now>>

\* Gallery.selectModel(model): a disabled gallery drops the selection
selectModel(m) ==
  /\ session = "live"
  /\ IF ~galleryEnabled
     THEN /\ UNCHANGED <<appVars, sceneVars, placeVars, markerVisible, gestureVars, uiVars>>
     ELSE onModelSelect(m)
  /\ UNCHANGED <<sessionVars, lastHitPosition, markerPosition, now>>

\* sessionInitCandidates, in the order start() tries them
sessionInitCandidates == <<"hit-test+dom-overlay", "hit-test">>

\* What the platform answers to one requestSession call: the session, or a
\* rejection with the named error
Outcomes == {"granted", "NotSupportedError", "SecurityError"}

\* A catch that goes on to the next candidate whatever the error
retryableAny(err) == TRUE

\* err && err.name === 'NotSupportedError': go on to the next candidate
retryable(err) == err = "NotSupportedError"

\* The for loop of start() from candidate i on, lastError and the requests
\* made so far carried along: the first granted candidate ends the loop, a
\* retryable rejection moves on, any other rejection is thrown at once, and
\* after the last candidate lastError is thrown
RECURSIVE requestSessions(_, _, _, _)
requestSessions(answers, i, lastError, made) ==
  IF i > Len(sessionInitCandidates)
  THEN [granted |-> FALSE, error |-> lastError, requests |-> made]
  ELSE LET made1 == Append(made, [candidate |-> sessionInitCandidates[i],
                                  outcome |-> answers[i]])
       IN IF answers[i] = "granted"
          THEN [granted |-> TRUE, error |-> lastError, requests |-> made1]
          ELSE IF retryable(answers[i])
          THEN requestSessions(answers, i + 1, answers[i], made1)
          ELSE [granted |-> FALSE, error |-> answers[i], requests |-> made1]

\* What configureSession meets: it succeeds, the local or the viewer
\* reference space is refused, or the hit-test source is missing or refused
\* (the reference spaces are stored by then)
ConfigureOutcomes == {"ok", "noReferenceSpace", "noViewerSpace", "noHitTest"}

\* configureSession(): the fields it leaves, and whether it returned
configureSession(outcome) ==
  [referenceSpace |-> IF outcome = "noReferenceSpace" THEN referenceSpace ELSE TRUE,
   viewerSpace |-> IF outcome \in {"noReferenceSpace", "noViewerSpace"}
                   THEN viewerSpace ELSE TRUE,
   hitTestSource |-> IF outcome = "ok" THEN TRUE ELSE hitTestSource,
   ok |-> outcome = "ok"]

\* The platform's record once no handle refers to an ended session any more
\* (an ended session nobody holds is as good as none)
forget(xs, held) ==
  [k \in SessionIds |-> IF xs[k] = "ended" /\ k \notin held THEN "none" ELSE xs[k]]

\* The session the platform creates next
FreeSessions == {k \in SessionIds : xrSessions[k] = "none"}
NextSession == CHOOSE k \in FreeSessions : \A j \in FreeSessions : k <= j

\* ARSession.start() run from its call to its end with no other event in
\* between: the candidates are requested in order; a granted session is
\* configured (reference spaces, hit-test source), and when that fails it is
\* ended and start() rejects.  On success the session is handed to the
\* renderer, the frame loop and the select and end listeners are registered,
\* then onSessionStarted -> autoLoadFirstModel ->
\* onModelSelect(CONFIG.models[0]).  sessionRequests and startError record
\* the requests made and the error start() rejected with.
startSession ==
  /\ session = "none"
  /\ FreeSessions # {}
  /\ \A s \in StartIds : starts[s].pc \in {"none", "done", "failed"}
  /\ \E answers \in [1..Len(sessionInitCandidates) -> Outcomes],
        outcome \in ConfigureOutcomes :
       LET r == requestSessions(answers, 1, NoError, <<>>)
           c == configureSession(outcome)
       IN /\ sessionRequests' = r.requests
          /\ IF r.granted /\ c.ok
             THEN /\ session' = "live"
                  /\ sessionId' = NextSession
                  /\ xrSessions' = [xrSessions EXCEPT ![NextSession] = "active"]
                  /\ referenceSpace' = c.referenceSpace
                  /\ viewerSpace' = c.viewerSpace
                  /\ hitTestSource' = c.hitTestSource
                  /\ xrPresenting' = NextSession
                  /\ xrLoop' = TRUE
                  /\ listeners' = listeners \cup {NextSession}
                  /\ startError' = NoError
                  /\ onModelSelect(FirstModel)
             ELSE /\ startError' = (IF r.granted THEN "HitTestError" ELSE r.error)
                  /\ referenceSpace' = (IF r.granted THEN c.referenceSpace ELSE referenceSpace)
                  /\ viewerSpace' = (IF r.granted THEN c.viewerSpace ELSE viewerSpace)
                  /\ UNCHANGED <<session, sessionId, xrSessions, hitTestSource,
                                 xrPresenting, xrLoop, listeners, appVars, sceneVars,
                                 placeVars, markerVisible, gestureVars, uiVars>>
  /\ UNCHANGED <<starts, hidden, lastHitPosition, markerPosition, now>>

\* ------------------------------------------------------ the model loader
\* ModelLoader.cancelCurrentLoad(): aborts the fetch of the loader's latest
\* call if it is still in flight.  The abort rejects the fetch at once; the
\* catch of onModelSelect finds the cancel flag set and returns, so the load
\* is settled without any other effect.
cancelCurrentLoad(ls) ==
  LET calls == {l \in Loads : ls[l].phase # "none"}
  IN IF calls = {} THEN ls
     ELSE LET cur == CHOOSE l \in calls : \A k \in calls : k <= l
          IN IF ls[cur].phase = "fetch" THEN [ls EXCEPT ![cur] = Settled] ELSE ls

\* The load cancelModelLoading is called for: the most recently started one
\* that has not settled
Outstanding(ls) == {l \in Loads : ls[l].phase \in {"fetch", "parse"}}
currentLoad(ls) == CHOOSE l \in Outstanding(ls) : \A k \in Outstanding(ls) : k <= l
markCancelled(ls) ==
  IF Outstanding(ls) = {} THEN ls
  ELSE [ls EXCEPT ![currentLoad(ls)].cancelled = TRUE]

\* ------------------------------------------------- loadAndCacheModel steps
\* The entity created once the fetch has resolved
newEntity(m) ==
  [model |-> m, inDOM |-> TRUE, visible |-> FALSE, position |-> Origin,
   scale |-> DefaultScale, rotation |-> 0, hasMesh |-> FALSE,
   baseScale |-> 0, floorOffset |-> 0, hasData |-> FALSE]

\* modelLoader.loadModel resolved: the entity is created hidden at the
\* origin, becomes the current model and enters the cache as not ready;
\* onModelSelect's continuation then only logs
fetchResolved(l) ==
  LET m == loads[l].model
  IN /\ loads[l].phase = "fetch"
     /\ loads' = [loads EXCEPT ![l].phase = "parse"]
     /\ ents' = [ents EXCEPT ![l] = newEntity(m)]
     /\ currentModel' = l
     /\ activeModelId' = m
     /\ modelEntityCache' = [modelEntityCache EXCEPT ![m] = [entity |-> l, isReady |-> FALSE]]
     /\ UNCHANGED <<modelIsPlaced, isModelLoading, isRepositioning, loadingCancelled,
                    lastPlacedHitPosition, pendingSwitchInPlace, previousModelState,
                    sessionVars, placeVars, hitVars, now, gestureVars, uiVars>>

\* modelLoader.loadModel rejected (a network failure): the catch of
\* onModelSelect returns when the cancel flag is set, otherwise unlocks the UI
\* and turns placement back on
fetchRejected(l) ==
  /\ loads[l].phase = "fetch"
  /\ loads' = [loads EXCEPT ![l] = Settled]
  /\ IF loadingCancelled
     THEN /\ UNCHANGED <<isModelLoading, uiVars, placeVars, markerVisible>>
     ELSE /\ isModelLoading' = FALSE
          /\ controlsEnabled' = TRUE
          /\ galleryEnabled' = TRUE
          /\ enablePlacement
  /\ UNCHANGED <<currentModel, activeModelId, modelIsPlaced, isRepositioning,
                 loadingCancelled, lastPlacedHitPosition, pendingSwitchInPlace,
                 previousModelState, modelEntityCache, ents, sessionVars,
                 lastHitPosition, markerPosition, now, gestureVars>>

\* scaleFactor = targetSizeMeters / largestDimension, the bounds taken at the
\* entity's scale at that moment
scaleFactorOf(m, scale) ==
  LET largest == (Geometry(m).largest * scale) \div 1000
  IN IF largest > 0 THEN (TargetSizeMM * 1000) \div largest ELSE 0

\* floorOffset = -scaledBoundingBox.min.y, clamped to 5 m
clampedFloorOffset(m, scaleFactor) ==
  LET floorOffset == -((Geometry(m).minY * scaleFactor) \div 1000)
  IN Min(Abs(floorOffset), MaxReasonableOffset) * Sign(floorOffset)

\* The bounds part of the model-loaded handler: normalise the scale, store
\* base scale and floor offset on the entity
normalised(en) ==
  LET sf == scaleFactorOf(en.model, en.scale)
  IN IF sf > 0
     THEN [en EXCEPT !.hasMesh = TRUE, !.scale = sf, !.baseScale = sf,
                     !.floorOffset = clampedFloorOffset(en.model, sf), !.hasData = TRUE]
     ELSE [en EXCEPT !.hasMesh = TRUE]

\* Marking ready: the entry looked up by config.id, whichever entity it holds
markReady(cache, m) ==
  IF cache[m] # Null THEN [cache EXCEPT ![m].isReady = TRUE] ELSE cache

\* 'model-loaded' on the entity of load l
modelLoaded(l) ==
  LET m == loads[l].model
      en == normalised(ents[l])
      pending == pendingSwitchInPlace # Null /\ pendingSwitchInPlace.modelId = m
      fo == IF en.hasData THEN en.floorOffset ELSE 0
  IN /\ loads[l].phase = "parse"
     /\ loads' = [loads EXCEPT ![l] = Settled]
     /\ modelEntityCache' = markReady(modelEntityCache, m)
     /\ IF ~loadingCancelled
        THEN isModelLoading' = FALSE /\ controlsEnabled' = TRUE /\ galleryEnabled' = TRUE
        ELSE UNCHANGED <<isModelLoading, uiVars>>
     /\ IF pending
        THEN /\ ents' = [ents EXCEPT ![l] =
                           [en EXCEPT !.position = placedPosition(pendingSwitchInPlace.hitPosition, fo),
                                      !.visible = TRUE]]
             /\ modelIsPlaced' = TRUE
             /\ disablePlacement
             /\ gestureModel' = l
             /\ gestureBaseScale' = en.scale
             /\ touchAfterDetach(gestureModel # NoEntity)
             /\ pendingSwitchInPlace' = Null
        ELSE /\ ents' = [ents EXCEPT ![l] = en]
             /\ enablePlacement
             /\ UNCHANGED <<modelIsPlaced, gestureVars, pendingSwitchInPlace>>
     /\ UNCHANGED <<currentModel, activeModelId, isRepositioning, loadingCancelled,
                    lastPlacedHitPosition, previousModelState, sessionVars,
                    lastHitPosition, markerPosition, now>>

\* A model-error handler that evicts the entry and leaves the UI locked
modelErrorKeepsLock(l) ==
  LET m == loads[l].model
  IN /\ loads[l].phase = "parse"
     /\ loads' = [loads EXCEPT ![l] = Settled]
     /\ modelEntityCache' = [modelEntityCache EXCEPT ![m] = Null]
     /\ UNCHANGED <<currentModel, activeModelId, modelIsPlaced, isModelLoading,
                    isRepositioning, loadingCancelled, lastPlacedHitPosition,
                    pendingSwitchInPlace, previousModelState, ents, sessionVars,
                    placeVars, hitVars, now, gestureVars, uiVars>>

\* 'model-error' on the entity of load l
modelError(l) ==
  LET m == loads[l].model
  IN /\ loads[l].phase = "parse"
     /\ loads' = [loads EXCEPT ![l] = Settled]
     /\ modelEntityCache' = [modelEntityCache EXCEPT ![m] = Null]
     /\ IF ~loadingCancelled
        THEN isModelLoading' = FALSE /\ controlsEnabled' = TRUE /\ galleryEnabled' = TRUE
        ELSE UNCHANGED <<isModelLoading, uiVars>>
     /\ UNCHANGED <<currentModel, activeModelId, modelIsPlaced, isRepositioning,
                    loadingCancelled, lastPlacedHitPosition, pendingSwitchInPlace,
                    previousModelState, ents, sessionVars, placeVars, hitVars, now,
                    gestureVars>>

\* ------------------------------------------------------------------ cancel
\* The entity cancel discards: the current model, unless the cache entry of
\* the active id is ready
cancelDiscards ==
  /\ currentModel # NoEntity
  /\ ~(activeModelId # NoModel /\ modelEntityCache[activeModelId] # Null
       /\ modelEntityCache[activeModelId].isReady)

\* The cache after the discard
cacheAfterCancel ==
  IF cancelDiscards /\ activeModelId # NoModel
  THEN [modelEntityCache EXCEPT ![activeModelId] = Null]
  ELSE modelEntityCache

\* The snapshot can be restored: its model is still cached and ready
canRestore(cache) ==
  /\ previousModelState # Null
  /\ cache[previousModelState.modelId] # Null
  /\ cache[previousModelState.modelId].isReady

\* The current model and active id when cancel restores nothing: left as they
\* are
unrestoredKeeps(prev) == <<currentModel, activeModelId>>

\* The current model and active id when cancel restores nothing: reset when
\* there is no snapshot, else left as they are
unrestored(prev) ==
  IF prev = Null THEN <<NoEntity, NoModel>> ELSE <<currentModel, activeModelId>>

\* cancelModelLoading()
cancelModelLoading ==
  /\ session = "live"
  /\ IF ~isModelLoading
     THEN /\ UNCHANGED <<appVars, sceneVars, placeVars, markerVisible, gestureVars, uiVars>>
     ELSE LET cache1 == cacheAfterCancel
              es1 == IF cancelDiscards
                     THEN [ents EXCEPT ![currentModel].inDOM = FALSE] ELSE ents
              prev == previousModelState
              restore == canRestore(cache1)
              e == cache1[prev.modelId].entity
          IN /\ loadingCancelled' = TRUE
             /\ loads' = cancelCurrentLoad(markCancelled(loads))
             /\ modelEntityCache' = cache1
             /\ IF restore
                THEN /\ currentModel' = e
                     /\ activeModelId' = prev.modelId
                     /\ IF prev.wasPlaced
                        THEN /\ ents' = [es1 EXCEPT ![e].position = prev.position,
                                                    ![e].scale = prev.scale,
                                                    ![e].rotation = prev.rotation,
                                                    ![e].visible = TRUE]
                             /\ modelIsPlaced' = TRUE
                             /\ gestureModel' = e
                             /\ gestureBaseScale' = prev.scale
                             /\ touchAfterDetach(gestureModel # NoEntity)
                        ELSE /\ ents' = es1
                             /\ UNCHANGED <<modelIsPlaced, gestureVars>>
                ELSE /\ ents' = es1
                     /\ currentModel' = unrestored(prev)[1]
                     /\ activeModelId' = unrestored(prev)[2]
                     /\ UNCHANGED <<modelIsPlaced, gestureVars>>
             /\ isModelLoading' = FALSE
             /\ controlsEnabled' = TRUE
             /\ galleryEnabled' = TRUE
             /\ enablePlacement
             /\ previousModelState' = Null
             /\ UNCHANGED <<isRepositioning, lastPlacedHitPosition, pendingSwitchInPlace>>
  /\ UNCHANGED <<sessionVars, lastHitPosition, markerPosition, now>>

\* ------------------------------------------------------------ tap to place
\* onPlaceModel(position), called by ARSession.onSelect, which hides the
\* marker afterwards
onPlaceModel(position) ==
  IF currentModel = NoEntity
  THEN /\ markerVisible' = FALSE
       /\ UNCHANGED <<appVars, sceneVars, placeVars, gestureVars>>
  ELSE IF ~ents[currentModel].hasMesh
  THEN /\ markerVisible' = FALSE
       /\ UNCHANGED <<appVars, sceneVars, placeVars, gestureVars>>
  ELSE /\ ents' = [ents EXCEPT
                     ![currentModel].position =
                        placedPosition(position, floorOffsetOf(ents, currentModel)),
                     ![currentModel].visible = TRUE]
       /\ modelIsPlaced' = TRUE
       /\ lastPlacedHitPosition' = position
       /\ disablePlacement
       /\ isRepositioning' = FALSE
       /\ gestureModel' = currentModel
       /\ gestureBaseScale' = ents[currentModel].scale
       /\ touchAfterDetach(gestureModel # NoEntity)
       /\ UNCHANGED <<currentModel, activeModelId, isModelLoading, loadingCancelled,
                      pendingSwitchInPlace, previousModelState, modelEntityCache, loads>>

\* The position a tap would place at: the stored hit, else the marker's
\* position while the marker is visible, else none
placePosition ==
  IF lastHitPosition # Null THEN lastHitPosition
  ELSE IF markerVisible THEN markerPosition
  ELSE Null

\* A select event is dispatched to onSelect: a session that carries the
\* listener is running
selectFires == \E k \in listeners : xrSessions[k] = "active"

\* A tap handler without the cooldown check
onSelectNoCooldown ==
  /\ selectFires
  /\ IF ~placementEnabled
     THEN /\ UNCHANGED <<appVars, sceneVars, placeVars, markerVisible, gestureVars>>
     ELSE IF placePosition # Null
     THEN onPlaceModel(placePosition)
     ELSE /\ UNCHANGED <<appVars, sceneVars, placeVars, markerVisible, gestureVars>>
  /\ UNCHANGED <<sessionVars, lastHitPosition, markerPosition, now, uiVars>>

\* ARSession.onSelect(event): the tap
onSelect ==
  /\ selectFires
  /\ IF ~placementEnabled
     THEN /\ UNCHANGED <<appVars, sceneVars, placeVars, markerVisible, gestureVars>>
     ELSE IF now < placementSuppressedUntil
     THEN /\ UNCHANGED <<appVars, sceneVars, placeVars, markerVisible, gestureVars>>
     ELSE IF placePosition # Null
     THEN onPlaceModel(placePosition)
     ELSE /\ UNCHANGED <<appVars, sceneVars, placeVars, markerVisible, gestureVars>>
  /\ UNCHANGED <<sessionVars, lastHitPosition, markerPosition, now, uiVars>>

\* --------------------------------------------------------- per-frame hit test
\* The animation loop is registered and the renderer presents a session that
\* delivers frames
frameRuns ==
  /\ xrLoop
  /\ xrPresenting # NoSession
  /\ xrSessions[xrPresenting] = "active"

NoPose == [nopose |-> TRUE]
FrameResults(positions) == {Null, NoPose} \cup positions

\* A frame callback that keeps the stored hit when there are no results
onXRFrameKeepsHit(result) ==
  /\ frameRuns
  /\ IF ~hitTestSource
     THEN UNCHANGED hitVars
     ELSE IF result = Null
     THEN /\ markerVisible' = FALSE
          /\ UNCHANGED <<lastHitPosition, markerPosition>>
     ELSE IF result = NoPose
     THEN UNCHANGED hitVars
     ELSE /\ lastHitPosition' = result
          /\ IF reticleEnabled
             THEN markerPosition' = result /\ markerVisible' = TRUE
             ELSE markerVisible' = FALSE /\ UNCHANGED markerPosition
  /\ UNCHANGED <<appVars, sceneVars, sessionVars, placeVars, now, gestureVars, uiVars>>

\* A frame callback that leaves the marker shown when there are no results
onXRFrameKeepsMarker(result) ==
  /\ frameRuns
  /\ IF ~hitTestSource
     THEN UNCHANGED hitVars
     ELSE IF result = Null
     THEN /\ lastHitPosition' = Null
          /\ UNCHANGED <<markerVisible, markerPosition>>
     ELSE IF result = NoPose
     THEN UNCHANGED hitVars
     ELSE /\ lastHitPosition' = result
          /\ IF reticleEnabled
             THEN markerPosition' = result /\ markerVisible' = TRUE
             ELSE markerVisible' = FALSE /\ UNCHANGED markerPosition
  /\ UNCHANGED <<appVars, sceneVars, sessionVars, placeVars, now, gestureVars, uiVars>>

\* ARSession.onXRFrame(time, frame): result is Null for zero hit-test
\* results, NoPose when the first result yields no pose, else the position
\* of the first result's pose
onXRFrame(result) ==
  /\ frameRuns
  /\ IF ~hitTestSource
     THEN UNCHANGED hitVars
     ELSE IF result = Null
     THEN /\ lastHitPosition' = Null
          /\ markerVisible' = FALSE
          /\ UNCHANGED markerPosition
     ELSE IF result = NoPose
     THEN UNCHANGED hitVars
     ELSE /\ lastHitPosition' = result
          /\ IF reticleEnabled
             THEN markerPosition' = result /\ markerVisible' = TRUE
             ELSE markerVisible' = FALSE /\ UNCHANGED markerPosition
  /\ UNCHANGED <<appVars, sceneVars, sessionVars, placeVars, now, gestureVars, uiVars>>

\* performance.now() advances by step; the clock is only read against the
\* suppression deadline, so it is left alone once the deadline has passed
tick(step) ==
  /\ now < MaxTime
  /\ now < placementSuppressedUntil
  /\ now' = now + step
  /\ UNCHANGED <<appVars, sceneVars, sessionVars, placeVars, hitVars, gestureVars, uiVars>>

\* -------------------------------------------------------------- reposition
\* A reload that leaves modelIsPlaced set
reloadModelKeepsPlaced ==
  /\ session = "live"
  /\ IF currentModel = NoEntity \/ ~modelIsPlaced
     THEN /\ UNCHANGED <<appVars, sceneVars, placeVars, markerVisible, gestureVars>>
     ELSE IF isModelLoading
     THEN /\ UNCHANGED <<appVars, sceneVars, placeVars, markerVisible, gestureVars>>
     ELSE IF isRepositioning
     THEN /\ UNCHANGED <<appVars, sceneVars, placeVars, markerVisible, gestureVars>>
     ELSE /\ isRepositioning' = TRUE
          /\ gestureModel' = NoEntity
          /\ touchAfterDetach(TRUE)
          /\ ents' = [ents EXCEPT ![currentModel].visible = FALSE]
          /\ enablePlacement
          /\ UNCHANGED <<currentModel, activeModelId, modelIsPlaced, isModelLoading,
                         loadingCancelled,
                         lastPlacedHitPosition, pendingSwitchInPlace, previousModelState,
                         modelEntityCache, loads, gestureBaseScale>>
  /\ UNCHANGED <<sessionVars, lastHitPosition, markerPosition, now, uiVars>>

\* A reloadModel whose first guard only asks for a current model
reloadModelUnplaced ==
  /\ session = "live"
  /\ IF currentModel = NoEntity
     THEN /\ UNCHANGED <<appVars, sceneVars, placeVars, markerVisible, gestureVars>>
     ELSE IF isModelLoading
     THEN /\ UNCHANGED <<appVars, sceneVars, placeVars, markerVisible, gestureVars>>
     ELSE IF isRepositioning
     THEN /\ UNCHANGED <<appVars, sceneVars, placeVars, markerVisible, gestureVars>>
     ELSE /\ isRepositioning' = TRUE
          /\ modelIsPlaced' = FALSE
          /\ gestureModel' = NoEntity
          /\ touchAfterDetach(TRUE)
          /\ ents' = [ents EXCEPT ![currentModel].visible = FALSE]
          /\ enablePlacement
          /\ UNCHANGED <<currentModel, activeModelId, isModelLoading, loadingCancelled,
                         lastPlacedHitPosition, pendingSwitchInPlace, previousModelState,
                         modelEntityCache, loads, gestureBaseScale>>
  /\ UNCHANGED <<sessionVars, lastHitPosition, markerPosition, now, uiVars>>

\* The reload button's handler and reloadModel()
reloadModel ==
  /\ session = "live"
  /\ IF currentModel = NoEntity \/ ~modelIsPlaced
     THEN /\ UNCHANGED <<appVars, sceneVars, placeVars, markerVisible, gestureVars>>
     ELSE IF isModelLoading
     THEN /\ UNCHANGED <<appVars, sceneVars, placeVars, markerVisible, gestureVars>>
     ELSE IF isRepositioning
     THEN /\ UNCHANGED <<appVars, sceneVars, placeVars, markerVisible, gestureVars>>
     ELSE /\ isRepositioning' = TRUE
          /\ modelIsPlaced' = FALSE
          /\ gestureModel' = NoEntity
          /\ touchAfterDetach(TRUE)
          /\ ents' = [ents EXCEPT ![currentModel].visible = FALSE]
          /\ enablePlacement
          /\ UNCHANGED <<currentModel, activeModelId, isModelLoading, loadingCancelled,
                         lastPlacedHitPosition, pendingSwitchInPlace, previousModelState,
                         modelEntityCache, loads, gestureBaseScale>>
  /\ UNCHANGED <<sessionVars, lastHitPosition, markerPosition, now, uiVars>>

\* -------------------------------------------------------- session lifecycle
\* What the steps of the session's lifecycle leave alone
orchestrator == <<appVars, sceneVars, placeVars, now, gestureVars, uiVars,
                  sessionRequests, startError>>

\* The sessions some handle still refers to
held(ss, sid, presenting, ls) ==
  ({sid, presenting} \cup ls \cup {ss[s].sess : s \in StartIds}
     \cup {ss[s].granted : s \in StartIds}) \ {NoSession}

\* The platform runs one immersive session at a time: a request made while
\* another one is pending or a session is running is rejected with
\* InvalidStateError
Refusal == "InvalidStateError"
refuses(s) ==
  \/ \E j \in StartIds \ {s} : starts[j].pc = "request"
  \/ \E k \in SessionIds : xrSessions[k] = "active"

\* start() up to its first await: with this.session set it returns at once;
\* otherwise it requests a session with the first candidate
start(s) ==
  /\ starts[s].pc = "none"
  /\ \A j \in StartIds : j < s => starts[j].pc # "none"
  /\ IF session # "none"
     THEN UNCHANGED starts
     ELSE starts' = [starts EXCEPT ![s] = [NoStart EXCEPT !.pc = "request",
                                                          !.candidate = 1,
                                                          !.refused = refuses(s)]]
  /\ UNCHANGED <<session, sessionId, hitTestSource, referenceSpace, viewerSpace,
                 xrLoop, listeners, xrPresenting, xrSessions, hidden, hitVars,
                 orchestrator>>

\* The platform answers the request of call s.  A granted session is stored
\* in this.session and configureSession is entered; a retryable rejection
\* moves on to the next candidate; after the last candidate the loop is left
\* and start() throws lastError unless this.session is set; any other
\* rejection is thrown at once
requestSettled(s, answer) ==
  LET c == starts[s]
  IN /\ c.pc = "request"
     /\ c.refused <=> answer = Refusal
     /\ answer = "granted" => FreeSessions # {}
     /\ IF answer = "granted"
        THEN /\ xrSessions' = [xrSessions EXCEPT ![NextSession] = "active"]
             /\ session' = "live"
             /\ sessionId' = NextSession
             /\ starts' = [starts EXCEPT ![s] = [c EXCEPT !.pc = "configure",
                                                          !.refused = FALSE,
                                                          !.granted = NextSession]]
        ELSE /\ starts' =
                  [starts EXCEPT ![s] =
                     IF retryable(answer) /\ c.candidate < Len(sessionInitCandidates)
                     THEN [c EXCEPT !.candidate = @ + 1, !.refused = refuses(s),
                                    !.lastError = answer]
                     ELSE IF retryable(answer) /\ session # "none"
                     THEN [c EXCEPT !.pc = "configure", !.refused = FALSE,
                                    !.lastError = answer]
                     ELSE Rejected]
             /\ UNCHANGED <<xrSessions, session, sessionId>>
     /\ UNCHANGED <<hitTestSource, referenceSpace, viewerSpace, xrLoop, listeners,
                    xrPresenting, hidden, hitVars, orchestrator>>

\* configureSession() of call s settles.  When it returns, the session is
\* handed to renderer.xr.setSession; when it throws, this.session.end() is
\* awaited.  With this.session cleared in the meantime the second request
\* throws, and so does the call of end(), which is ignored.
configureSettled(s, outcome) ==
  LET c == starts[s]
      met == IF session = "none" /\ outcome # "noReferenceSpace"
             THEN "noViewerSpace" ELSE outcome
      r == configureSession(met)
  IN /\ c.pc = "configure"
     /\ outcome = "ok" => (session # "none" /\ xrSessions[sessionId] = "active")
     /\ referenceSpace' = r.referenceSpace
     /\ viewerSpace' = r.viewerSpace
     /\ hitTestSource' = r.hitTestSource
     /\ IF r.ok
        THEN /\ xrPresenting' = sessionId
             /\ starts' = [starts EXCEPT ![s] = [c EXCEPT !.pc = "setSession",
                                                          !.sess = sessionId]]
        ELSE /\ starts' = [starts EXCEPT ![s] =
                             IF session # "none"
                             THEN [c EXCEPT !.pc = "ending", !.sess = sessionId]
                             ELSE Rejected]
             /\ UNCHANGED xrPresenting
     /\ xrSessions' = forget(xrSessions, held(starts', sessionId, xrPresenting', listeners))
     /\ UNCHANGED <<session, sessionId, xrLoop, listeners, hidden, hitVars,
                    orchestrator>>

\* The fields of ARSession and the marker as they are
asIs ==
  [session |-> session, sessionId |-> sessionId, listeners |-> listeners,
   xrLoop |-> xrLoop, xrPresenting |-> xrPresenting, hitTestSource |-> hitTestSource,
   referenceSpace |-> referenceSpace, viewerSpace |-> viewerSpace,
   lastHitPosition |-> lastHitPosition, markerVisible |-> markerVisible,
   markerPosition |-> markerPosition]

\* onSessionEnd(): the listeners are taken off this.session, the animation
\* loop and the renderer's session are cleared, the hit-test source is
\* cancelled, the marker is reset and the handles are dropped
onSessionEnd ==
  [session |-> "none", sessionId |-> NoSession, listeners |-> listeners \ {sessionId},
   xrLoop |-> FALSE, xrPresenting |-> NoSession, hitTestSource |-> FALSE,
   referenceSpace |-> FALSE, viewerSpace |-> FALSE,
   lastHitPosition |-> Null, markerVisible |-> FALSE, markerPosition |-> Origin]

\* Session k ends: its end event runs onSessionEnd when k carries the listener
ended(k) == IF k \in listeners /\ xrSessions[k] = "active" THEN onSessionEnd ELSE asIs

\* The fields f become the state
becomes(f) ==
  /\ session' = f.session
  /\ sessionId' = f.sessionId
  /\ listeners' = f.listeners
  /\ xrLoop' = f.xrLoop
  /\ xrPresenting' = f.xrPresenting
  /\ hitTestSource' = f.hitTestSource
  /\ referenceSpace' = f.referenceSpace
  /\ viewerSpace' = f.viewerSpace
  /\ lastHitPosition' = f.lastHitPosition
  /\ markerVisible' = f.markerVisible
  /\ markerPosition' = f.markerPosition

\* The platform ends session k (the user leaves AR, or ARSession.end())
sessionEnds(k) ==
  /\ xrSessions[k] = "active"
  /\ becomes(ended(k))
  /\ xrSessions' = forget([xrSessions EXCEPT ![k] = "ended"],
                          held(starts, sessionId', xrPresenting', listeners'))
  /\ UNCHANGED <<starts, hidden, orchestrator>>

\* A failure path that leaves this.session as it is
endSettledKeepsSession(s) ==
  LET k == starts[s].sess
  IN /\ starts[s].pc = "ending"
     /\ becomes(ended(k))
     /\ starts' = [starts EXCEPT ![s] = Rejected]
     /\ xrSessions' = forget([xrSessions EXCEPT ![k] = "ended"],
                             held(starts', sessionId', xrPresenting', listeners'))
     /\ UNCHANGED <<hidden, orchestrator>>

\* this.session.end() of call s has settled: the session has ended, start()
\* clears this.session and rejects with configureSession's error
endSettled(s) ==
  LET k == starts[s].sess
  IN /\ starts[s].pc = "ending"
     /\ becomes([ended(k) EXCEPT !.session = "none", !.sessionId = NoSession])
     /\ starts' = [starts EXCEPT ![s] = Rejected]
     /\ xrSessions' = forget([xrSessions EXCEPT ![k] = "ended"],
                             held(starts', sessionId', xrPresenting', listeners'))
     /\ UNCHANGED <<hidden, orchestrator>>

\* renderer.xr.setSession of call s has settled: the animation loop is set,
\* the select and end listeners are added to this.session (a TypeError when
\* it was cleared in the meantime), then onStart: onSessionStarted ->
\* autoLoadFirstModel -> onModelSelect(CONFIG.models[0])
sessionSet(s) ==
  /\ starts[s].pc = "setSession"
  /\ xrLoop' = TRUE
  /\ IF session = "none"
     THEN /\ starts' = [starts EXCEPT ![s] = Rejected]
          /\ UNCHANGED <<listeners, appVars, sceneVars, placeVars, markerVisible,
                         gestureVars, uiVars>>
     ELSE /\ starts' = [starts EXCEPT ![s] = Returned]
          /\ listeners' = listeners \cup {sessionId}
          /\ onModelSelect(FirstModel)
  /\ xrSessions' = forget(xrSessions, held(starts', sessionId, xrPresenting, listeners'))
  /\ UNCHANGED <<session, sessionId, hitTestSource, referenceSpace, viewerSpace,
                 xrPresenting, hidden, sessionRequests, startError, lastHitPosition,
                 markerPosition, now>>

\* pause(): renderer.setAnimationLoop(null)
pause == xrLoop' = FALSE

\* A resume that does not look at this.session
resumeAlways == xrLoop' = TRUE

\* resume(): the animation loop is set again if this.session is set
resume == xrLoop' = (IF session # "none" THEN TRUE ELSE xrLoop)

\* The visibilitychange handler: pause when the page is hidden, resume when
\* it is shown again
visibilityChange ==
  /\ hidden' = ~hidden
  /\ IF hidden' THEN pause ELSE resume
  /\ UNCHANGED <<session, sessionId, hitTestSource, referenceSpace, viewerSpace,
                 listeners, xrPresenting, xrSessions, starts, hitVars, orchestrator>>

\* ----------------------------------------------------------------- gestures
\* A touch event as the handlers read it: the number of touches on the
\* screen, the first touch's clientX, and for two touches their distance and
\* the angle of the line between them (degrees)
TouchXs == {0, 180}
Distances == {0, 100, 400}
Angles == {0, 90}
OneTouch == {[n |-> 1, x |-> x, distance |-> 0, angle |-> 0] : x \in TouchXs}
TwoTouches ==
  {t \in [n : {2}, x : {0}, distance : Distances, angle : Angles] :
     t.distance # 0 \/ t.angle = 0}
NoTouch == [n |-> 0, x |-> 0, distance |-> 0, angle |-> 0]

Max(a, b) == IF a > b THEN a ELSE b

\* minScale and maxScale of handleScale: baseScale * (minFactor || 0.2) and
\* baseScale * (maxFactor || 5.0)
minScale(base) == (base * (IF MinFactor # 0 THEN MinFactor ELSE 200)) \div 1000
maxScale(base) == (base * (IF MaxFactor # 0 THEN MaxFactor ELSE 5000)) \div 1000

\* scale * scaleFactor, with rawScaleFactor = distance / lastDistance and
\* scaleFactor = 1 + (rawScaleFactor - 1) * scaleSpeed (thousandths)
scaled(scale, last, distance) ==
  LET rawScaleFactor == (distance * 1000) \div last
      scaleFactor == 1000 + ((rawScaleFactor - 1000) * ScaleSpeed) \div 1000
  IN (scale * scaleFactor) \div 1000

\* A pinch update that applies the scale factor without clamping
newScaleUnclamped(scale, last, distance, base) == scaled(scale, last, distance)

\* The scale handleScale sets: Math.max(minScale, Math.min(maxScale, newScale))
newScale(scale, last, distance, base) ==
  Max(minScale(base), Min(maxScale(base), scaled(scale, last, distance)))

\* handleScale(touch1, touch2) on entity en: the first update after a zero
\* distance only records the distance
handleScale(en, distance) ==
  IF lastDistance = 0 THEN en
  ELSE [en EXCEPT !.scale = newScale(en.scale, lastDistance, distance, gestureBaseScale)]

\* The angle delta without the wrap-around correction
deltaAngleRaw(angle) == angle - lastAngle

\* The angle delta of handlePinchRotate, wrapped into (-180, 180]
deltaAngle(angle) ==
  LET d == angle - lastAngle
  IN IF d > 180 THEN d - 360 ELSE IF d < -180 THEN d + 360 ELSE d

\* handlePinchRotate(touch1, touch2) on entity en: the first update after the
\* angle was reset only records the angle
handlePinchRotate(en, angle) ==
  IF lastAngle = NoAngle THEN en
  ELSE [en EXCEPT !.rotation = en.rotation - (deltaAngle(angle) * PinchRotateSpeed) \div 1000]

\* handleRotation(touch) on entity en, rotation.axis = 'y'
handleRotation(en, x) ==
  [en EXCEPT !.rotation = en.rotation - ((x - lastTouchX) * RotationSpeed) \div 1000]

\* An event that gets past a handler's early returns is counted, up to
\* MaxTouches of them
handled(delivered) ==
  IF delivered THEN touches < MaxTouches /\ touches' = touches + 1
  ELSE UNCHANGED touches

\* onTouchStart(event); onUI: the touch is on the UI overlay
onTouchStart(t, onUI) ==
  /\ handled(gestureModel # NoEntity /\ ~onUI)
  /\ IF gestureModel = NoEntity \/ onUI
     THEN UNCHANGED <<isRotating, isScaling, touchVars, sinceDrop>>
     ELSE IF t.n = 1
     THEN /\ isRotating' = TRUE
          /\ lastTouchX' = t.x
          /\ sinceDrop' = [sinceDrop EXCEPT !.anchor = NoDrop.anchor]
          /\ UNCHANGED <<isScaling, lastDistance, lastAngle>>
     ELSE /\ isRotating' = FALSE
          /\ isScaling' = TRUE
          /\ lastDistance' = t.distance
          /\ lastAngle' = t.angle
          /\ sinceDrop' = [anchor |-> NoDrop.anchor,
                           twist |-> IF sinceDrop.twist = NoDrop.twist THEN NoDrop.twist ELSE t.angle]
          /\ UNCHANGED lastTouchX
  /\ UNCHANGED <<appVars, sceneVars, sessionVars, placeVars, hitVars, now,
                 gestureModel, gestureBaseScale, uiVars>>

\* A touchmove handler that does not look at the event's target
onTouchMoveAnyTarget(t, onUI) ==
  /\ handled(gestureModel # NoEntity)
  /\ IF gestureModel = NoEntity
     THEN UNCHANGED <<ents, touchVars, sinceDrop>>
     ELSE IF t.n = 1
     THEN IF isRotating
          THEN /\ ents' = [ents EXCEPT ![gestureModel] = handleRotation(@, t.x)]
               /\ lastTouchX' = t.x
               /\ sinceDrop' = [sinceDrop EXCEPT !.anchor = NoDrop.anchor]
               /\ UNCHANGED <<lastDistance, lastAngle>>
          ELSE UNCHANGED <<ents, touchVars, sinceDrop>>
     ELSE /\ ents' = [ents EXCEPT ![gestureModel] =
                        handlePinchRotate(IF isScaling THEN handleScale(@, t.distance) ELSE @,
                                          t.angle)]
          /\ lastDistance' = (IF isScaling THEN t.distance ELSE lastDistance)
          /\ lastAngle' = t.angle
          /\ sinceDrop' = NoDrop
          /\ UNCHANGED lastTouchX
  /\ gestureModel # NoEntity => Abs(ents'[gestureModel].rotation) <= MaxTurn
  /\ UNCHANGED <<appVars, loads, sessionVars, placeVars, hitVars, now,
                 gestureModel, gestureBaseScale, isRotating, isScaling, uiVars>>

\* onTouchMove(event): one finger rotates, two fingers scale and twist
onTouchMove(t, onUI) ==
  /\ handled(gestureModel # NoEntity /\ ~onUI)
  /\ IF gestureModel = NoEntity \/ onUI
     THEN UNCHANGED <<ents, touchVars, sinceDrop>>
     ELSE IF t.n = 1
     THEN IF isRotating
          THEN /\ ents' = [ents EXCEPT ![gestureModel] = handleRotation(@, t.x)]
               /\ lastTouchX' = t.x
               /\ sinceDrop' = [sinceDrop EXCEPT !.anchor = NoDrop.anchor]
               /\ UNCHANGED <<lastDistance, lastAngle>>
          ELSE UNCHANGED <<ents, touchVars, sinceDrop>>
     ELSE /\ ents' = [ents EXCEPT ![gestureModel] =
                        handlePinchRotate(IF isScaling THEN handleScale(@, t.distance) ELSE @,
                                          t.angle)]
          /\ lastDistance' = (IF isScaling THEN t.distance ELSE lastDistance)
          /\ lastAngle' = t.angle
          /\ sinceDrop' = NoDrop
          /\ UNCHANGED lastTouchX
  /\ gestureModel # NoEntity => Abs(ents'[gestureModel].rotation) <= MaxTurn
  /\ UNCHANGED <<appVars, loads, sessionVars, placeVars, hitVars, now,
                 gestureModel, gestureBaseScale, isRotating, isScaling, uiVars>>

\* A touchend handler that keeps the rotation anchor and the twist baseline
\* when one finger remains
onTouchEndKeepsBaseline(t) ==
  /\ handled(gestureModel # NoEntity)
  /\ IF gestureModel = NoEntity
     THEN UNCHANGED <<isRotating, isScaling, touchVars, sinceDrop>>
     ELSE IF t.n = 0
     THEN /\ isRotating' = FALSE
          /\ isScaling' = FALSE
          /\ sinceDrop' = [sinceDrop EXCEPT !.anchor = NoDrop.anchor]
          /\ UNCHANGED touchVars
     ELSE /\ isScaling' = FALSE
          /\ isRotating' = TRUE
          /\ sinceDrop' = [anchor |-> t.x, twist |-> NoAngle]
          /\ UNCHANGED touchVars
  /\ UNCHANGED <<appVars, sceneVars, sessionVars, placeVars, hitVars, now,
                 gestureModel, gestureBaseScale, uiVars>>

\* onTouchEnd(event): t is what remains on the screen
onTouchEnd(t) ==
  /\ handled(gestureModel # NoEntity)
  /\ IF gestureModel = NoEntity
     THEN UNCHANGED <<isRotating, isScaling, touchVars, sinceDrop>>
     ELSE IF t.n = 0
     THEN /\ isRotating' = FALSE
          /\ isScaling' = FALSE
          /\ sinceDrop' = [sinceDrop EXCEPT !.anchor = NoDrop.anchor]
          /\ UNCHANGED touchVars
     ELSE /\ isScaling' = FALSE
          /\ isRotating' = TRUE
          /\ lastTouchX' = t.x
          /\ lastAngle' = NoAngle
          /\ sinceDrop' = [anchor |-> t.x, twist |-> NoAngle]
          /\ UNCHANGED lastDistance
  /\ UNCHANGED <<appVars, sceneVars, sessionVars, placeVars, hitVars, now,
                 gestureModel, gestureBaseScale, uiVars>>

\* ------------------------------------------------------------ specification
\* The number of loads started so far
started == Cardinality({l \in Loads : loads[l].phase # "none"})

\* The orchestrator with a user who starts at most MaxLoads loads, one
\* surface position and a coarse clock
Next ==
  \/ startSession
  \/ \E m \in Models : (isReady(m) \/ started < MaxLoads) /\ selectModel(m)
  \/ \E l \in Loads : fetchResolved(l)
  \/ \E l \in Loads : fetchRejected(l)
  \/ \E l \in Loads : modelLoaded(l)
  \/ \E l \in Loads : modelError(l)
  \/ cancelModelLoading
  \/ onSelect
  \/ \E r \in FrameResults({SurfaceHit}) : onXRFrame(r)
  \/ tick(TickMs)
  \/ reloadModel

Spec == Init /\ [][Next]_vars

\* The same under the claim's provisos: a fetch in flight eventually resolves
\* or rejects, and an entity being parsed eventually fires model-loaded or
\* model-error
SpecLive ==
  /\ Spec
  /\ \A l \in Loads : WF_vars(fetchResolved(l) \/ fetchRejected(l))
  /\ \A l \in Loads : WF_vars(modelLoaded(l) \/ modelError(l))

\* The same with one more load: long enough for a completion of a cancelled
\* load to arrive during a later load of the same model
NextDeep ==
  \/ startSession
  \/ \E m \in Models : (isReady(m) \/ started < DeepLoads) /\ selectModel(m)
  \/ \E l \in Loads : fetchResolved(l)
  \/ \E l \in Loads : fetchRejected(l)
  \/ \E l \in Loads : modelLoaded(l)
  \/ \E l \in Loads : modelError(l)
  \/ cancelModelLoading
  \/ onSelect
  \/ \E r \in FrameResults({SurfaceHit}) : onXRFrame(r)
  \/ tick(TickMs)
  \/ reloadModel

SpecDeep == Init /\ [][NextDeep]_vars

\* The hit-test provider in detail: two surface positions, a finer clock, and
\* a user who starts at most HitLoads loads
NextHit ==
  \/ startSession
  \/ \E m \in Models : (isReady(m) \/ started < HitLoads) /\ selectModel(m)
  \/ \E l \in Loads : fetchResolved(l)
  \/ \E l \in Loads : fetchRejected(l)
  \/ \E l \in Loads : modelLoaded(l)
  \/ \E l \in Loads : modelError(l)
  \/ cancelModelLoading
  \/ onSelect
  \/ \E r \in FrameResults(HitPositions) : onXRFrame(r)
  \/ tick(HitTickMs)
  \/ reloadModel

SpecHit == Init /\ [][NextHit]_vars

\* The orchestrator with the touch gestures: a user who starts at most
\* GestureLoads loads and rotates, pinches and twists the model
NextGesture ==
  \/ startSession
  \/ \E m \in Models : (isReady(m) \/ started < GestureLoads) /\ selectModel(m)
  \/ \E l \in Loads : fetchResolved(l)
  \/ \E l \in Loads : fetchRejected(l)
  \/ \E l \in Loads : modelLoaded(l)
  \/ \E l \in Loads : modelError(l)
  \/ cancelModelLoading
  \/ onSelect
  \/ \E r \in FrameResults({SurfaceHit}) : onXRFrame(r)
  \/ tick(TickMs)
  \/ reloadModel
  \/ \E t \in OneTouch \cup TwoTouches, onUI \in BOOLEAN : onTouchStart(t, onUI)
  \/ \E t \in OneTouch \cup TwoTouches, onUI \in BOOLEAN : onTouchMove(t, onUI)
  \/ \E t \in {NoTouch} \cup OneTouch : onTouchEnd(t)

SpecGesture == Init /\ [][NextGesture]_vars

\* The AR UI is on the screen: shown by onSessionStarted, hidden by
\* onSessionEnded
uiShown == session = "live" /\ selectFires

\* The session's lifecycle in detail: start() await by await, with up to
\* MaxStarts calls of it, the session ending, the page hidden and shown again,
\* and a user who starts at most SessionLoads loads from the gallery
NextLifecycle ==
  \/ \E s \in StartIds : start(s)
  \/ \E s \in StartIds, answer \in Outcomes \cup {Refusal} : requestSettled(s, answer)
  \/ \E s \in StartIds, outcome \in ConfigureOutcomes : configureSettled(s, outcome)
  \/ \E s \in StartIds : endSettled(s)
  \/ \E s \in StartIds : sessionSet(s)
  \/ \E k \in SessionIds : sessionEnds(k)
  \/ visibilityChange
  \/ \E m \in Models : uiShown /\ (isReady(m) \/ started < SessionLoads) /\ selectModel(m)
  \/ \E l \in Loads : fetchResolved(l)
  \/ \E l \in Loads : fetchRejected(l)
  \/ \E l \in Loads : modelLoaded(l)
  \/ \E l \in Loads : modelError(l)
  \/ uiShown /\ cancelModelLoading
  \/ onSelect
  \/ \E r \in FrameResults({SurfaceHit}) : onXRFrame(r)
  \/ tick(TickMs)
  \/ uiShown /\ reloadModel

SpecSession == Init /\ [][NextLifecycle]_vars

\* ------------------------------------------------------------------ claims
\* The models whose cache entry holds an entity with visible = true
visibleCached ==
  {m \in Models : modelEntityCache[m] # Null /\ ents[modelEntityCache[m].entity].visible}

\* C1: in every reachable state at most one entity held in the model cache
\* is visible
C1_AtMostOneCachedVisible == Cardinality(visibleCached) <= 1

\* The placement state C2 lists
placementState ==
  <<currentModel, activeModelId, modelIsPlaced, isRepositioning,
    lastPlacedHitPosition, pendingSwitchInPlace, previousModelState>>

\* C2: while isModelLoading, a gallery selection and a reload request leave
\* the placement state, the cache and the reticle/placement flags unchanged;
\* cancelModelLoading is the one UI action that changes state (it ends the
\* loading)
C2_IgnoredWhileLoading ==
  [][/\ (isModelLoading /\ ((\E m \in Models : selectModel(m)) \/ reloadModel))
        => UNCHANGED <<placementState, modelEntityCache, reticleEnabled,
                       placementEnabled>>
     /\ (isModelLoading /\ cancelModelLoading)
        => (~isModelLoading' /\ loadingCancelled' /\ placementEnabled')]_vars

\* C2's case: a load is in progress while another model is cached and ready
\* and a model had been placed, so that a selection or a reload would act if
\* it were not ignored
C2_Witness ==
  /\ isModelLoading
  /\ \E m \in Models : isReady(m)
  /\ previousModelState # Null /\ previousModelState.wasPlaced

\* A completion of load l: its fetch settles or its entity fires an event
completion(l) ==
  fetchResolved(l) \/ fetchRejected(l) \/ modelLoaded(l) \/ modelError(l)

\* Entity by entity, the visible attribute
visibility == [e \in Loads |-> ents[e].visible]

\* C3: once cancelModelLoading was called for a load, nothing that load does
\* later changes the current model, modelIsPlaced, the visibility of any
\* entity, the cache, isModelLoading, the reticle/placement flags or the
\* gesture target
C3_CancelledLoadDiscarded ==
  [][\A l \in Loads :
       (loads[l].cancelled /\ completion(l))
       => UNCHANGED <<currentModel, activeModelId, modelIsPlaced, visibility,
                      modelEntityCache, isModelLoading, reticleEnabled,
                      placementEnabled, gestureModel>>]_vars

\* A load that has not settled: its fetch or its parse is in progress
unsettled(l) == loads[l].phase \in {"fetch", "parse"}

\* C4: there are never two unsettled loads for the same model id
C4_OneLoadPerModel ==
  \A l, k \in Loads :
    (l # k /\ unsettled(l) /\ unsettled(k)) => loads[l].model # loads[k].model

\* The floor offset of model m: that of its geometry once normalised from
\* the default scale
expectedFloorOffset(m) == clampedFloorOffset(m, scaleFactorOf(m, DefaultScale))

\* cancelModelLoading acts on the load in progress
cancels(l) ==
  isModelLoading /\ Outstanding(loads) # {} /\ l = currentLoad(loads) /\ cancelModelLoading

\* C5: cancelling a load that was started while model M was placed with
\* transform T leaves M active and visible with transform T, modelIsPlaced
\* true and isModelLoading false
C5_CancelRestoresPlaced ==
  [][\A l \in Loads :
       (cancels(l) /\ loads[l].before # Null /\ loads[l].before.placed)
       => LET b == loads[l].before
          IN /\ activeModelId' = b.model
             /\ currentModel' # NoEntity
             /\ ents'[currentModel'].model = b.model
             /\ ents'[currentModel'].inDOM /\ ents'[currentModel'].visible
             /\ ents'[currentModel'].position = b.position
             /\ ents'[currentModel'].scale = b.scale
             /\ ents'[currentModel'].rotation = b.rotation
             /\ modelIsPlaced' /\ ~isModelLoading']_vars

\* Idle: no active model, nothing placed, no reposition, no load
Idle ==
  /\ currentModel = NoEntity /\ activeModelId = NoModel
  /\ ~modelIsPlaced /\ ~isRepositioning /\ ~isModelLoading

rawHit(b) ==
  [x |-> b.position.x, y |-> b.position.y - expectedFloorOffset(b.model),
   z |-> b.position.z]

\* Entity e, of model m, is shown on raw hit position hit: placed there with
\* m's floor offset, active, reticle and placement off
shownAt(e, m, hit) ==
  /\ currentModel' = e /\ activeModelId' = m
  /\ ents'[e].model = m /\ ents'[e].inDOM /\ ents'[e].visible
  /\ ents'[e].position = placedPosition(hit, expectedFloorOffset(m))
  /\ modelIsPlaced' /\ ~reticleEnabled' /\ ~placementEnabled'

\* C7: with model A placed and no reposition under way, selecting a cached
\* model B shows B at A's raw hit position with B's floor offset at once, and
\* selecting a model B that has to be loaded shows it there when its load
\* succeeds, in both cases placed with reticle and placement off
C7_SwitchInPlace ==
  [][/\ \A m \in Models :
          (/\ ~isModelLoading /\ galleryEnabled /\ isReady(m)
           /\ activeBefore # Null /\ activeBefore.placed /\ ~activeBefore.repositioning
           /\ selectModel(m))
          => shownAt(modelEntityCache[m].entity, m, rawHit(activeBefore))
     /\ \A l \in Loads :
          (/\ loads[l].before # Null /\ loads[l].before.placed
           /\ ~loads[l].before.repositioning /\ ~loads[l].cancelled
           /\ modelLoaded(l))
          => shownAt(l, loads[l].model, rawHit(loads[l].before))]_vars

\* C8: a frame whose hit test returns zero results leaves lastHitPosition
\* null, whatever it was before
C8_ZeroResultsClearHit ==
  [][(hitTestSource /\ onXRFrame(Null)) => lastHitPosition' = Null]_vars

\* C8's case: the stored hit is null although a frame with a hit had
\* positioned the marker before
C8_Witness == lastHitPosition = Null /\ markerPosition \in HitPositions

\* After a zero-result frame and before a later frame with a hit: no stored
\* hit and no visible marker
noHit == lastHitPosition = Null /\ ~markerVisible

C10_SuppressedTapIgnored ==
  [][(now < placementSuppressedUntil /\ onSelect) => UNCHANGED vars]_vars

\* C10's case: before the deadline with placement enabled, a hit stored and
\* a parsed model waiting
C10_Witness ==
  /\ now < placementSuppressedUntil /\ now > 0
  /\ placementEnabled /\ lastHitPosition # Null
  /\ currentModel # NoEntity /\ ents[currentModel].hasMesh /\ ~modelIsPlaced

\* The cache entry of model m holds a parsed entity
cachedReady(m) == modelEntityCache[m] # Null /\ modelEntityCache[m].isReady

\* C11: selecting a model whose cache entry is ready starts no load and does
\* not set isModelLoading, in whichever state it is selected; when the
\* selection is not dropped the model becomes the active one
C11_CachedSelectNoFetch ==
  [][\A m \in Models :
       (cachedReady(m) /\ selectModel(m))
       => /\ loads' = loads
          /\ isModelLoading' = isModelLoading
          /\ (galleryEnabled /\ ~isModelLoading) => (activeModelId' = m /\ ~isModelLoading')]_vars

\* C11's case: only the first load was ever started, and a selection of the
\* cached model has since switched it in place (the first load took no
\* snapshot, so the snapshot is the cached selection's)
C11_Witness ==
  /\ started = 1 /\ ~isModelLoading
  /\ previousModelState # Null /\ previousModelState.wasPlaced /\ modelIsPlaced

\* The scale of the attached model lies within the limits taken from the base
\* scale captured at attach
scaleInRange ==
  /\ minScale(gestureBaseScale) <= ents[gestureModel].scale
  /\ ents[gestureModel].scale <= maxScale(gestureBaseScale)

\* C12: after every two-finger pinch update on an attached model the scale
\* lies in [baseScale * minFactor, baseScale * maxFactor]
C12_PinchScaleInRange ==
  [][\A t \in TwoTouches :
       (gestureModel # NoEntity /\ isScaling /\ onTouchMove(t, FALSE))
       => scaleInRange']_vars

\* C12's case: a pinch has driven the attached model's scale to the upper
\* limit, above the base scale
C12_Witness ==
  /\ gestureModel # NoEntity /\ isScaling /\ lastDistance # 0
  /\ ents[gestureModel].scale = maxScale(gestureBaseScale)
  /\ ents[gestureModel].scale > gestureBaseScale

\* C13: whenever a load is in progress, isModelLoading eventually becomes
\* false with the controls and the gallery enabled
C13_LoadingEnds ==
  isModelLoading ~> (~isModelLoading /\ controlsEnabled /\ galleryEnabled)

\* C13's case: a load has run to its end, its entity parsed, and the UI is
\* unlocked
C13_Witness ==
  /\ \E l \in Loads : loads[l].phase = "done" /\ ents[l].hasMesh
  /\ ~isModelLoading /\ controlsEnabled /\ galleryEnabled

\* C14: while modelIsPlaced, reticle and placement are both disabled
C14_PlacedNoPlacement == modelIsPlaced => (~reticleEnabled /\ ~placementEnabled)

\* ARSession accepts a tap: placement enabled, the cooldown over, a position
\* to place at
accepted == placementEnabled /\ now >= placementSuppressedUntil /\ placePosition # Null

\* The current model is parsed and in the scene
parsedActive ==
  /\ currentModel # NoEntity
  /\ ents[currentModel].hasMesh /\ ents[currentModel].inDOM

\* The tap shows the current model on hit: visible at (x, y + floorOffset, z),
\* placed, reposition over, reticle and placement off, gestures attached, the
\* raw hit recorded
placedOn(hit) ==
  LET e == currentModel
  IN /\ currentModel' = e /\ activeModelId' = activeModelId
     /\ ents'[e].visible
     /\ ents'[e].position = [x |-> hit.x, y |-> hit.y + expectedFloorOffset(ents[e].model),
                             z |-> hit.z]
     /\ modelIsPlaced' /\ ~isRepositioning'
     /\ ~reticleEnabled' /\ ~placementEnabled'
     /\ gestureModel' = e
     /\ lastPlacedHitPosition' = hit

\* C15: an accepted tap with a parsed model active and not yet placed shows
\* that model at the hit raised by its floor offset, sets modelIsPlaced,
\* clears isRepositioning, disables reticle and placement, attaches the
\* gestures and records the raw hit as lastPlacedHitPosition
C15_TapToPlace ==
  [][(accepted /\ parsedActive /\ ~modelIsPlaced /\ onSelect)
     => placedOn(placePosition)]_vars

\* C15's case: house0 stands on the surface hit raised by its floor offset,
\* the raw hit recorded, gestures attached
C15_Witness ==
  /\ modelIsPlaced /\ currentModel # NoEntity /\ gestureModel = currentModel
  /\ lastPlacedHitPosition = SurfaceHit
  /\ ents[currentModel].model = "house0" /\ ents[currentModel].visible
  /\ ents[currentModel].position = [x |-> 1000, y |-> 300, z |-> -2000]

\* reloadModel acts: a model is placed, no load and no reposition under way
repositions ==
  /\ currentModel # NoEntity /\ modelIsPlaced /\ ~isModelLoading /\ ~isRepositioning
  /\ reloadModel

\* C16: reloadModel on a placed model hides it, detaches the gestures, clears
\* modelIsPlaced, sets isRepositioning and enables reticle and placement with
\* suppression, the active model staying the same; an accepted tap during the
\* reposition, that model still parsed and in the scene, shows it
\* (activeModelId unchanged) at the new hit, placed, and clears isRepositioning
C16_RepositionRoundTrip ==
  [][/\ repositions
        => /\ currentModel' = currentModel /\ activeModelId' = activeModelId
           /\ ~ents'[currentModel].visible
           /\ gestureModel' = NoEntity
           /\ ~modelIsPlaced' /\ isRepositioning'
           /\ reticleEnabled' /\ placementEnabled'
           /\ placementSuppressedUntil' = now + SuppressMs
     /\ (isRepositioning /\ parsedActive /\ ~modelIsPlaced /\ accepted /\ onSelect)
        => placedOn(placePosition)]_vars

\* C16's case: the model of the only load started stands placed after a second
\* suppression window, which with no other selection and no cancel only
\* reloadModel can have opened
C16_Witness ==
  /\ started = 1 /\ previousModelState = Null /\ ~loadingCancelled
  /\ modelIsPlaced /\ ~isRepositioning /\ currentModel # NoEntity
  /\ ents[currentModel].visible /\ gestureModel = currentModel
  /\ now >= SuppressMs + SuppressMs

\* Awaiting placement after a failed load: the UI unlocked, no cache entry for
\* model m, reticle and placement enabled with a suppression window
recovered(m) ==
  /\ ~isModelLoading' /\ controlsEnabled' /\ galleryEnabled'
  /\ modelEntityCache'[m] = Null
  /\ reticleEnabled' /\ placementEnabled'
  /\ placementSuppressedUntil' = now + SuppressMs

\* C17: when the fetch of a load that was not cancelled fails, the UI is
\* unlocked, the cache holds no entry for the model, and reticle and placement
\* are enabled with a suppression window
C17_FetchFailureRecovers ==
  [][\A l \in Loads :
       (~loads[l].cancelled /\ fetchRejected(l)) => recovered(loads[l].model)]_vars

\* C17's case: the only load started has failed in its fetch (no entity was
\* ever created) and the orchestrator awaits placement
C17_Witness ==
  /\ started = 1 /\ \A l \in Loads : loads[l].phase \in {"none", "done"}
  /\ \A e \in Loads : ents[e].model = NoModel
  /\ session = "live" /\ ~loadingCancelled /\ ~isModelLoading /\ placementEnabled

\* C18: when the parse of a load that was not cancelled fails, recovery is
\* that of a fetch failure, and the active-model pointer is not left on the
\* failed entity
C18_ParseFailureRecovers ==
  [][\A l \in Loads :
       (~loads[l].cancelled /\ modelError(l))
       => (recovered(loads[l].model) /\ currentModel' # l)]_vars

\* C19: a gallery selection that activates a ready cached model leaves its
\* scale at the stored base scale and its rotation at zero
C19_ActivationResetsTransform ==
  [][\A m \in Models :
       (galleryEnabled /\ ~isModelLoading /\ cachedReady(m) /\ selectModel(m))
       => LET e == modelEntityCache[m].entity
          IN /\ ents[e].hasData /\ ents[e].baseScale > 0
             /\ ents'[e].scale = ents[e].baseScale
             /\ ents'[e].rotation = 0]_vars

\* The requests of a start() are made in the candidates' order
inOrder(requests) ==
  /\ Len(requests) \in 1..Len(sessionInitCandidates)
  /\ \A i \in 1..Len(requests) : requests[i].candidate = sessionInitCandidates[i]

\* start() was rejected while requesting the session: no request was granted
requestFailed(requests) == \A i \in 1..Len(requests) : requests[i].outcome # "granted"

\* C20 as stated: the candidates are requested in order, the next one being
\* tried whenever one is rejected, and start() rejects only after every
\* candidate has been tried and has failed, with the last candidate's error
C20_AllCandidatesTried ==
  [][startSession
     => LET rs == sessionRequests'
        IN /\ inOrder(rs)
           /\ requestFailed(rs)
              => /\ Len(rs) = Len(sessionInitCandidates)
                 /\ startError' = rs[Len(rs)].outcome]_vars

\* C20 amended: the candidates are requested in order, the next one being
\* tried only when one is rejected as unsupported (NotSupportedError); any
\* other rejection ends start() at once with that error; when every candidate
\* was rejected as unsupported, start() rejects with the last candidate's
\* error
C20_UnsupportedRetried ==
  [][startSession
     => LET rs == sessionRequests'
        IN /\ inOrder(rs)
           /\ \A i \in 1..(Len(rs) - 1) : rs[i].outcome = "NotSupportedError"
           /\ requestFailed(rs)
              => /\ startError' = rs[Len(rs)].outcome
                 /\ rs[Len(rs)].outcome = "NotSupportedError"
                    => Len(rs) = Len(sessionInitCandidates)]_vars

\* C20's case: both candidates were requested and rejected as unsupported,
\* and start() rejected with the last one's error
C20_Witness ==
  /\ session = "none" /\ Len(sessionRequests) = Len(sessionInitCandidates)
  /\ requestFailed(sessionRequests)
  /\ startError = sessionRequests[Len(sessionRequests)].outcome

\* Call s of start() was granted a session and its configureSession fails for
\* want of a hit-test source
hitTestFails(s) ==
  /\ starts[s].pc = "configure" /\ starts[s].granted # NoSession
  /\ configureSettled(s, "noHitTest")

\* C21: when a session was created and the hit-test source cannot be
\* obtained, start() goes on to end that session without starting the frame
\* loop, registering a listener or calling onSessionStarted (which would
\* select the first model); once end() has settled, start() rejects, the
\* created session is no longer running and this.session is null
C21_HitTestFailureTearsDown ==
  [][\A s \in StartIds :
       /\ hitTestFails(s)
          => /\ starts'[s].pc = "ending" /\ starts'[s].sess = starts[s].granted
             /\ UNCHANGED <<xrLoop, listeners, appVars, sceneVars>>
       /\ (starts[s].pc = "ending" /\ endSettled(s))
          => /\ starts'[s].pc = "failed"
             /\ xrSessions'[starts[s].granted] # "active"
             /\ session' = "none" /\ sessionId' = NoSession
             /\ xrLoop' => xrLoop
             /\ starts[s].granted \notin listeners'
             /\ UNCHANGED <<appVars, sceneVars>>]_vars

\* C21's case: the only call of start() was granted a session, failed to
\* configure it and has rejected; the reference spaces it obtained are still
\* stored
C21_Witness ==
  /\ starts[1].pc = "failed" /\ starts[2].pc = "none"
  /\ referenceSpace /\ viewerSpace /\ ~hitTestSource
  /\ session = "none" /\ \A k \in SessionIds : xrSessions[k] = "none"

\* The requests for a session the platform has not answered yet, and the
\* sessions that are running
requested == {s \in StartIds : starts[s].pc = "request"}
running == {k \in SessionIds : xrSessions[k] = "active"}

\* C22: at any time at most one XR session is requested or live, whatever
\* the interleaving of the calls of start(): a call made while another is
\* waiting for the platform, or while a session is live, requests none
C22_OneSessionAtATime == Cardinality(requested) + Cardinality(running) <= 1

\* The session-scoped handles are dropped, the stored hit is cleared and the
\* frame loop is stopped
released ==
  /\ ~hitTestSource' /\ ~referenceSpace' /\ ~viewerSpace'
  /\ session' = "none" /\ sessionId' = NoSession
  /\ lastHitPosition' = Null
  /\ ~xrLoop'

\* C23: when the session that start() has set up ends, the hit-test source,
\* both reference spaces and the session handle are released, lastHitPosition
\* is null, the frame loop is stopped, and reticleEnabled and
\* placementEnabled are false
C23_SessionEndReleases ==
  [][\A k \in SessionIds :
       (k \in listeners /\ sessionEnds(k))
       => (released /\ ~reticleEnabled' /\ ~placementEnabled')]_vars

\* this.session is set and that session is running
live == session # "none" /\ xrSessions[sessionId] = "active"

\* C24: from pause() (the page hidden) until resume() (the page shown again)
\* no frame callback is registered, whatever start() and the session do in
\* between; and resume() registers the callback only while the session is
\* still live.  (The renderer holds one animation-loop callback, so there is
\* never more than one.)
C24_PauseResume ==
  [][/\ hidden' => ~xrLoop'
     /\ (hidden /\ visibilityChange /\ xrLoop') => live]_vars

\* The attached model keeps its rotation and its scale
sameTransform ==
  /\ ents'[gestureModel].rotation = ents[gestureModel].rotation
  /\ ents'[gestureModel].scale = ents[gestureModel].scale

\* C25: with a model attached, a touchstart and a touchmove whose target is
\* a UI element, and every touchend, leave the model's rotation and scale as
\* they are, whatever touches the event lists
C25_UITouchLeavesModel ==
  [][gestureModel # NoEntity
     => /\ \A t \in OneTouch \cup TwoTouches :
             (onTouchStart(t, TRUE) \/ onTouchMove(t, TRUE)) => sameTransform
        /\ \A t \in {NoTouch} \cup OneTouch : onTouchEnd(t) => sameTransform]_vars

\* C25's case: a pinch has scaled the attached model and one of its fingers
\* has been lifted since (the twist angle is reset, the rotation anchor
\* taken), so that a touch on the UI would meet a gesture under way
C25_Witness ==
  /\ gestureModel # NoEntity /\ isRotating /\ ~isScaling /\ lastAngle = NoAngle
  /\ ents[gestureModel].scale > gestureBaseScale

\* The scale of entity e lies within the limits taken from the base scale
\* factor stored on it when its model was loaded
withinLoadedRange(e) ==
  /\ minScale(ents[e].baseScale) <= ents[e].scale
  /\ ents[e].scale <= maxScale(ents[e].baseScale)

\* C26: the scale of every loaded model stays within
\* [B * minFactor, B * maxFactor], B being the base scale factor computed for
\* it at load, through placing, pinching, repositioning, switching and
\* cancel-restore
C26_ScaleWithinLoadedRange ==
  \A e \in Loads : (ents[e].hasData /\ ents[e].baseScale > 0) => withinLoadedRange(e)

\* C27: whenever a step of the orchestrator turns placementEnabled from false
\* to true, the suppression deadline it leaves is at least SuppressMs after
\* the current time, so a tap at that instant is dropped by onSelect
C27_SuppressedWhenEnabled ==
  [][(~placementEnabled /\ placementEnabled')
     => /\ placementSuppressedUntil' >= now' + SuppressMs
        /\ now' < placementSuppressedUntil']_vars

\* C27's case: a placed model was sent back to repositioning after the
\* clock had advanced, which turned placement on again with a fresh deadline
C27_Witness ==
  /\ isRepositioning /\ placementEnabled /\ ~modelIsPlaced
  /\ now > 0 /\ placementSuppressedUntil = now + SuppressMs

\* The placement state in which the selection of model m, held by entity e,
\* ends, given the decision x taken at the moment of the selection: shown on
\* the stored hit with gestures attached and reticle and placement off, or
\* hidden with reticle and placement on, waiting for a tap
endsAs(e, m, x) ==
  /\ currentModel' = e /\ activeModelId' = m
  /\ isRepositioning' = x.repositioning
  /\ IF x.switch
     THEN /\ modelIsPlaced' /\ ents'[e].visible
          /\ ents'[e].position = placedPosition(x.hit, floorOffsetOf(ents', e))
          /\ ~reticleEnabled' /\ ~placementEnabled'
          /\ gestureModel' = e
     ELSE /\ ~modelIsPlaced' /\ ~ents'[e].visible
          /\ reticleEnabled' /\ placementEnabled'
          /\ gestureModel' = x.gesture

\* C28: selecting a model ends in the same placement state (active model,
\* modelIsPlaced, position and visibility, reticle and placement flags,
\* isRepositioning, gesture target) when the model is cached, at once, and
\* when it has to be loaded, at the success of its load, in the
\* switch-in-place branch and in the await-placement branch
C28_CachedAndLoadedAgree ==
  [][/\ \A m \in Models :
          (~isModelLoading /\ galleryEnabled /\ isReady(m) /\ selectModel(m))
          => endsAs(modelEntityCache[m].entity, m, cachedOutcome)
     /\ \A l \in Loads :
          (~loads[l].cancelled /\ modelLoaded(l))
          => endsAs(l, loads[l].model, loads[l].asCached)]_vars

\* The cache holds a ready entry for model m after the step
readyAfter(m) == modelEntityCache'[m] # Null /\ modelEntityCache'[m].isReady

\* C29: a ready cache entry stays in the cache, ready and on the same
\* entity, through every step (selection, fetch, placement, reposition,
\* cancel, load failure of another model) other than the failed parse of a
\* load of that same model
C29_ReadyEntryKept ==
  [][\A m \in Models :
       isReady(m)
       => \/ readyAfter(m) /\ modelEntityCache'[m].entity = modelEntityCache[m].entity
          \/ \E l \in Loads : loads[l].model = m /\ modelError(l)]_vars

\* Every entry of the cache is ready
allReady == \A m \in Models : modelEntityCache[m] # Null => modelEntityCache[m].isReady

\* Every entity in the scene is the entity of a ready cache entry
noneLeftBehind ==
  \A e \in Loads :
    ents[e].inDOM => \E m \in Models : isReady(m) /\ modelEntityCache[m].entity = e

\* C30: whenever isModelLoading is false, every cache entry is ready and no
\* entity of a load that was cancelled or failed is left in the scene
C30_IdleCacheAllReady == ~isModelLoading => (allReady /\ noneLeftBehind)

\* The attached model's rotation after the step is its rotation before,
\* turned by delta at the given speed
turnedBy(delta, speed) ==
  ents'[gestureModel].rotation = ents[gestureModel].rotation - (delta * speed) \div 1000

\* A touchend that leaves one finger sets the anchor to that finger and the
\* twist baseline to null, and the first one-finger move after it rotates by
\* the movement since
dropsToOne ==
  /\ \A t \in OneTouch : onTouchEnd(t) => (lastTouchX' = t.x /\ lastAngle' = NoAngle)
  /\ \A t \in OneTouch :
       (sinceDrop.anchor # NoDrop.anchor /\ isRotating /\ onTouchMove(t, FALSE))
       => turnedBy(t.x - sinceDrop.anchor, RotationSpeed)

\* C31 as stated: when a gesture drops to one finger the anchor becomes the
\* remaining finger's position and the twist baseline null, the first
\* one-finger move rotates by the movement since, and the first twist update
\* of the next two-finger gesture applies no rotation
C31_DropToOneFinger ==
  [][gestureModel # NoEntity
     => /\ dropsToOne
        /\ \A t \in TwoTouches :
             (sinceDrop.twist # NoDrop.twist /\ onTouchMove(t, FALSE)) => turnedBy(0, 1000)]_vars

\* C31 amended: as above, but the first twist update of the next two-finger
\* gesture rotates by the change of angle since that gesture's touchstart,
\* and by nothing only when no touchstart set the baseline
C31_DropThenTwistFromStart ==
  [][gestureModel # NoEntity
     => /\ dropsToOne
        /\ \A t \in TwoTouches :
             (sinceDrop.twist # NoDrop.twist /\ onTouchMove(t, FALSE))
             => IF sinceDrop.twist = NoAngle THEN turnedBy(0, 1000)
                ELSE turnedBy(t.angle - sinceDrop.twist, PinchRotateSpeed)]_vars

\* C31's case: a gesture dropped to one finger, a second finger came back at
\* an angle and the first twist update is still to come
C31_Witness ==
  /\ gestureModel # NoEntity /\ isScaling /\ touches < MaxTouches
  /\ sinceDrop.twist = 90 /\ lastAngle = 90

\* ------------------------------------------------------------ twist angles
\* Two-finger touches at every angle getAngle can return, in steps of
\* TwistStep degrees over [-180, 180]
TwistAngles == {a \in -180..180 : a % TwistStep = 0}
TwistTouches == {[n |-> 2, x |-> 0, distance |-> 100, angle |-> a] : a \in TwistAngles}

\* The first model is loaded and placed, then twisted with two fingers
NextTwist ==
  \/ startSession
  \/ \E l \in Loads : fetchResolved(l)
  \/ \E l \in Loads : modelLoaded(l)
  \/ \E r \in FrameResults({SurfaceHit}) : onXRFrame(r)
  \/ tick(TickMs)
  \/ onSelect
  \/ \E t \in TwistTouches : onTouchStart(t, FALSE)
  \/ \E t \in TwistTouches : onTouchMove(t, FALSE)

SpecTwist == Init /\ [][NextTwist]_vars

\* The twist a step applied to the attached model, in degrees
\* (rotation.y -= deltaAngle * speed)
appliedTwist ==
  ((ents[gestureModel].rotation - ents'[gestureModel].rotation) * 1000) \div PinchRotateSpeed

\* C32: for successive two-finger angles in [-180, 180], the twist applied
\* lies in [-180, 180] and is congruent modulo 360 to the current angle
\* minus the previous one
C32_TwistDeltaWrapped ==
  [][\A t \in TwistTouches :
       (gestureModel # NoEntity /\ lastAngle # NoAngle)
       => /\ deltaAngle(t.angle) \in -180..180
          /\ (deltaAngle(t.angle) - (t.angle - lastAngle)) % 360 = 0
          /\ onTouchMove(t, FALSE) => appliedTwist = deltaAngle(t.angle)]_vars

\* C32's case: a twist from -135 to 135 degrees, 270 degrees the long way
\* round, has turned the model by the 90 degrees of the short way
C32_Witness ==
  /\ gestureModel # NoEntity /\ touches = 2 /\ lastAngle = 135
  /\ ents[gestureModel].rotation = 90

\* C33: a call of reloadModel that changes anything was made with a model
\* placed, no load in progress and no reposition under way; in every other
\* state the call leaves all state as it is, reticle and placement included
C33_ReloadOnlyWhenPlaced ==
  [][reloadModel
     => /\ currentModel # NoEntity /\ modelIsPlaced
        /\ ~isModelLoading /\ ~isRepositioning]_vars

\* C33's case: reloadModel has acted on a placed model, which is now hidden
\* and detached, waiting for the tap that places it again
C33_Witness ==
  /\ isRepositioning /\ ~modelIsPlaced /\ ~isModelLoading
  /\ currentModel # NoEntity /\ ~ents[currentModel].visible
  /\ gestureModel = NoEntity /\ reticleEnabled /\ placementEnabled

\* C34: isRepositioning and modelIsPlaced are never true together
C34_RepositioningNotPlaced == isRepositioning => ~modelIsPlaced

\* C35: whenever the gesture handler has a target, the target is the
\* current model, in the scene, placed and visible, with no reposition under
\* way
C35_GestureTargetIsPlacedModel ==
  gestureModel # NoEntity
  => /\ gestureModel = currentModel
     /\ ents[gestureModel].inDOM /\ ents[gestureModel].visible
     /\ modelIsPlaced /\ ~isRepositioning

\* C36: whenever modelIsPlaced is true, lastPlacedHitPosition is set and the
\* active model stands on it, raised by its own floor offset
C36_PlacedOnLastHit ==
  modelIsPlaced
  => /\ lastPlacedHitPosition # Null /\ currentModel # NoEntity
     /\ ents[currentModel].position =
          placedPosition(lastPlacedHitPosition, floorOffsetOf(ents, currentModel))

\* A fetch or a parse that was not cancelled is in progress
loadInProgress ==
  \E l \in Loads : loads[l].phase \in {"fetch", "parse"} /\ ~loads[l].cancelled

\* C37: while isModelLoading is true, and so while a fetch or a parse is in
\* progress, placementEnabled is false: no tap places or moves a model
\* during a load
C37_NoPlacementWhileLoading == (isModelLoading \/ loadInProgress) => ~placementEnabled

\* C38: the model-loaded event of entity l marks a cache entry ready only
\* when the entry holds entity l, and clears isModelLoading only when l is
\* the load in progress
C38_ReadyByOwnEntity ==
  [][\A l \in Loads :
       modelLoaded(l)
       => /\ \A m \in Models :
               (modelEntityCache[m] # Null /\ ~modelEntityCache[m].isReady /\ readyAfter(m))
               => modelEntityCache[m].entity = l
          /\ (isModelLoading /\ ~isModelLoading') => l = currentLoad(loads)]_vars

\* A frame with the given first result, processed with the hit-test source
\* in place, that leaves a stored position other than its own result's
leavesStaleHit(result) ==
  /\ hitTestSource
  /\ onXRFrame(result)
  /\ lastHitPosition' # Null
  /\ lastHitPosition' # result

\* C39: no per-frame callback processed while the hit-test source exists
\* leaves in lastHitPosition anything but null or the position of that
\* frame's first result, also when the first result yields no pose
C39_NoStaleHit ==
  \A result \in FrameResults(HitPositions) : ~ENABLED leavesStaleHit(result)

\* C40: whenever placementEnabled is true, reticleEnabled is true as well
C40_PlacementImpliesReticle == placementEnabled => reticleEnabled

\* C40's case: placement is on again after a cancel, which followed a load
\* that had turned it off
C40_Witness ==
  /\ placementEnabled /\ reticleEnabled /\ loadingCancelled /\ ~isModelLoading
  /\ placementSuppressedUntil > 0
====
